---- MODULE Spec2Model ----
(***************************************************************************)
(* Model of the support-engineering utilities: the in-memory incident      *)
(* store (src/src/incidentTracker.js) and the parallel API health checker  *)
(* (checkAPIHealth).                                                       *)
(*                                                                         *)
(* JavaScript values are represented as follows.                           *)
(*   null / absent      the empty sequence Null                            *)
(*   a Date / a string  a one-element sequence <<v>>, v the epoch          *)
(*                      milliseconds resp. the text                        *)
(*   undefined return   reference 0 (incidents are referenced by their     *)
(*                      position in the store, 1..Len)                     *)
(*   a number produced by "/"   an exact fraction <<numerator, denominator>>*)
(***************************************************************************)
EXTENDS Integers, Sequences, FiniteSets, TLC

VARIABLES
    incidents,  \* IncidentTracker.incidents
    now,        \* the wall clock read by new Date() and Date.now(), in ms
    calls,      \* history: number of createIncident calls so far
    ret,        \* the last IncidentTracker call and what it returned
    pc,         \* checkAPIHealth: "idle", "running", "returned" or "threw"
    urls,       \* checkAPIHealth: the urls argument
    start,      \* per probe: const start = Date.now()
    fetchP,     \* per probe: the promise of fetch(url)
    timerP,     \* per probe: the promise rejected by setTimeout
    raceP,      \* per probe: the promise of Promise.race([...])
    first,      \* history, per probe: which of fetch and timer settled first
    probeP,     \* per probe: the promise of the async map callback
    returned,   \* what checkAPIHealth returned (Null until then)
    logInput,   \* LogParser: the argument of the call (log text or log lines)
    logOut      \* LogParser: the last call and what it returned

storeVars == <<incidents, calls, ret>>
healthVars == <<pc, urls, start, fetchP, timerP, raceP, first, probeP, returned>>
logVars == <<logInput, logOut>>
vars == <<incidents, now, calls, ret, pc, urls, start, fetchP, timerP, raceP, first,
          probeP, returned, logInput, logOut>>

(* ---- bounds ---- *)
MaxIncidents == 2
MaxHours == 3
MaxUrls == 2
MaxElapsed == 1
MaxPieces == 4
MaxLogs == 3

(* ---- inputs ---- *)
\* createIncident(title, severity, affectedServices) argument triples
CreateArgs == { <<"cdn outage", "high", <<"api", "db">> >>,
                <<"login errors", "low", <<>> >> }
\* rca texts a caller may pass; the empty text is one of them
Rcas == {"bad deploy", ""}
\* ids a caller may pass: numbers and numeric strings (JSDoc: string|number)
Num(n) == [t |-> "number", v |-> n]
Str(n) == [t |-> "string", v |-> n]
IdArgs == {Num(n) : n \in 1..(MaxIncidents + 1)} \cup {Str(1)}

(* ---- values ---- *)
Null == <<>>
Some(v) == <<v>>
Val(o) == o[1]
\* JavaScript truthiness of a field that holds null or an object (a Date)
Truthy(o) == o /= Null

MsPerHour == 1000 * 60 * 60

(* ---- IncidentTracker ---- *)
NextIdZeroBased(incs) == Len(incs)
NextId(incs) == Len(incs) + 1

NewIncident(incs, title, severity, affectedServices, clock) ==
    [ id |-> NextId(incs),
      title |-> title,
      severity |-> severity,
      affectedServices |-> affectedServices,
      detectionTime |-> Some(clock),
      resolutionTime |-> Null,
      rca |-> Null ]

\* inc.id === id : strict equality, a string never equals a number
LooseIdEq(incId, id) == id.v = incId
StrictIdEq(incId, id) == id.t = "number" /\ id.v = incId

\* Array.prototype.find: position of the first match, 0 when there is none
Find(incs, id) ==
    IF \E k \in 1..Len(incs) : StrictIdEq(incs[k].id, id)
    THEN CHOOSE k \in 1..Len(incs) :
            /\ StrictIdEq(incs[k].id, id)
            /\ \A j \in 1..(k - 1) : ~StrictIdEq(incs[j].id, id)
    ELSE 0

\* the wall clock read by new Date(): it advances between calls and is taken
\* never to step backwards; two reads may see the same value
Tick ==
    /\ now + MsPerHour <= MaxHours * MsPerHour
    /\ now' = now + MsPerHour
    /\ UNCHANGED <<storeVars, healthVars, logVars>>

createIncident ==
    /\ Len(incidents) < MaxIncidents
    /\ \E a \in CreateArgs :
          incidents' = Append(incidents, NewIncident(incidents, a[1], a[2], a[3], now))
    /\ calls' = calls + 1
    /\ ret' = [op |-> "createIncident", ref |-> Len(incidents) + 1, val |-> <<>>, arg |-> <<>>]
    /\ UNCHANGED <<now, healthVars, logVars>>

ShouldResolveAlways(incs, k) == k /= 0
ShouldResolve(incs, k) == k /= 0 /\ ~Truthy(incs[k].resolutionTime)

ResolvedAll(incs, k, rca, clock) ==
    [j \in 1..Len(incs) |->
        [incs[j] EXCEPT !.resolutionTime = Some(clock), !.rca = Some(rca)]]
ResolvedNoRca(incs, k, rca, clock) ==
    [incs EXCEPT ![k].resolutionTime = Some(clock)]
ResolvedEpoch(incs, k, rca, clock) ==
    [incs EXCEPT ![k].resolutionTime = Some(0), ![k].rca = Some(rca)]
Resolved(incs, k, rca, clock) ==
    [incs EXCEPT ![k].resolutionTime = Some(clock), ![k].rca = Some(rca)]

resolveIncident ==
    /\ \E id \in IdArgs, rca \in Rcas :
          LET k == Find(incidents, id) IN
          /\ incidents' = IF ShouldResolve(incidents, k)
                          THEN Resolved(incidents, k, rca, now)
                          ELSE incidents
          /\ ret' = [op |-> "resolveIncident", ref |-> k, val |-> <<>>, arg |-> <<id, rca>>]
    /\ UNCHANGED <<now, calls, healthVars, logVars>>

(* ---- exact fractions for the results of "/" ---- *)
RECURSIVE Gcd(_, _)
Gcd(a, b) == IF b = 0 THEN a ELSE Gcd(b, a % b)
Abs(n) == IF n < 0 THEN 0 - n ELSE n
\* lowest terms with a positive denominator; <<n, 0>> (NaN or Infinity) is kept
Norm(q) ==
    IF q[2] = 0 THEN q
    ELSE LET g == Gcd(Abs(q[1]), Abs(q[2]))
             sg == IF q[2] < 0 THEN 0 - 1 ELSE 1
         IN <<sg * (q[1] \div g), sg * (q[2] \div g)>>
Div(q, n) == <<q[1], q[2] * n>>

\* this.incidents.filter(inc => inc.resolutionTime)
FilterResolved(incs) ==
    LET IsRes(inc) == Truthy(inc.resolutionTime) IN SelectSeq(incs, IsRes)

\* resolved.reduce((sum, inc) => sum + (inc.resolutionTime - inc.detectionTime), 0)
RECURSIVE ReduceSum(_)
ReduceSum(rs) ==
    IF rs = <<>> THEN 0
    ELSE ReduceSum(SubSeq(rs, 1, Len(rs) - 1))
         + (Val(rs[Len(rs)].resolutionTime) - Val(rs[Len(rs)].detectionTime))

MTTRNoHours(incs) ==
    LET resolved == FilterResolved(incs) IN
    IF Len(resolved) = 0 THEN <<0, 1>>
    ELSE Div(<<ReduceSum(resolved), 1>>, Len(resolved))
MTTR(incs) ==
    LET resolved == FilterResolved(incs) IN
    IF Len(resolved) = 0 THEN <<0, 1>>
    ELSE Div(Div(<<ReduceSum(resolved), 1>>, Len(resolved)), MsPerHour)

calculateMTTR ==
    /\ ret' = [op |-> "calculateMTTR", ref |-> 0, val |-> MTTR(incidents), arg |-> <<>>]
    /\ UNCHANGED <<incidents, now, calls, healthVars, logVars>>

(* ---- generateMarkdownReport ---- *)
Pad2(n) == IF n < 10 THEN "0" \o ToString(n) ELSE ToString(n)
Pad3(n) == IF n < 10 THEN "00" \o ToString(n)
           ELSE IF n < 100 THEN "0" \o ToString(n) ELSE ToString(n)

\* Date.prototype.toISOString, for times within January 1970
ToISOString(ms) ==
    "1970-01-" \o Pad2(1 + (ms \div (24 * MsPerHour)))
      \o "T" \o Pad2((ms \div MsPerHour) % 24)
      \o ":" \o Pad2((ms \div 60000) % 60)
      \o ":" \o Pad2((ms \div 1000) % 60)
      \o "." \o Pad3(ms % 1000) \o "Z"

\* Array.prototype.join
RECURSIVE Join(_, _)
Join(xs, sep) ==
    IF xs = <<>> THEN ""
    ELSE IF Len(xs) = 1 THEN xs[1]
    ELSE xs[1] \o sep \o Join(Tail(xs), sep)

\* Number.prototype.toFixed(2) of a non-negative fraction
ToFixed2(q) ==
    LET r == Norm(q)
        c == (200 * r[1] + r[2]) \div (2 * r[2])
    IN ToString(c \div 100) \o "." \o Pad2(c % 100)

\* inc.resolutionTime ? inc.resolutionTime.toISOString() : 'Unresolved'
RenderResolutionByRca(inc) ==
    IF inc.rca /= Null /\ Val(inc.rca) /= ""
    THEN ToISOString(Val(inc.resolutionTime))
    ELSE "Unresolved"
RenderResolution(inc) ==
    IF Truthy(inc.resolutionTime)
    THEN ToISOString(Val(inc.resolutionTime))
    ELSE "Unresolved"

\* inc.rca || 'Pending' : null and the empty string are falsy
RenderRca(inc) ==
    IF inc.rca /= Null /\ Val(inc.rca) /= "" THEN Val(inc.rca) ELSE "Pending"

\* the six lines the forEach body appends for one incident
Section(inc) ==
    << "## Incident #" \o ToString(inc.id) \o ": " \o inc.title,
       "- **Severity:** " \o inc.severity,
       "- **Affected Services:** " \o Join(inc.affectedServices, ", "),
       "- **Detection Time:** " \o ToISOString(Val(inc.detectionTime)),
       "- **Resolution Time:** " \o RenderResolution(inc),
       "- **RCA:** " \o RenderRca(inc) >>

\* the report: its heading, one section per incident in store order, the MTTR line
Report(incs) ==
    [ heading |-> "# Incident Report",
      sections |-> [k \in 1..Len(incs) |-> Section(incs[k])],
      mttr |-> "**MTTR:** " \o ToFixed2(MTTR(incs)) \o " hours" ]

generateMarkdownReport ==
    /\ ret' = [op |-> "generateMarkdownReport", ref |-> 0,
               val |-> Report(incidents), arg |-> <<>>]
    /\ UNCHANGED <<incidents, now, calls, healthVars, logVars>>

(* ---- checkAPIHealth ---- *)
Urls == {"http://fast", "http://slow"}
\* HTTP status codes a GET may answer with
Statuses == {200, 404}
\* message of the error a failed GET rejects with
FetchErrors == {"fetch failed"}

RECURSIVE SeqsUpTo(_, _)
SeqsUpTo(S, n) ==
    IF n = 0 THEN {<<>>}
    ELSE LET shorter == SeqsUpTo(S, n - 1)
         IN shorter \cup {Append(q, x) : q \in {r \in shorter : Len(r) = n - 1}, x \in S}

\* promise states; a fulfilled fetch carries the Response's status, a rejected
\* promise carries the Error's message
Pending == [state |-> "pending", status |-> Null, error |-> Null]
Fulfilled(st) == [state |-> "fulfilled", status |-> Some(st), error |-> Null]
Rejected(msg) == [state |-> "rejected", status |-> Null, error |-> Some(msg)]

\* Response.ok: the status is in the range 200-299
OkBelow500(st) == st < 500
Ok(st) == st >= 200 /\ st <= 299

\* what the timer does to its promise: reject(new Error('Timeout'))
\* (had it resolved instead, reading response.status of undefined would throw)
TimerResolves == Rejected("Cannot read properties of undefined (reading 'status')")
TimerSettlement == Rejected("Timeout")

\* Promise.race: the first input to settle settles the race, later ones are ignored
RaceWithoutTimer(race, settled) ==
    IF race.state = "pending" /\ settled /= Rejected("Timeout") THEN settled ELSE race
Race(race, settled) == IF race.state = "pending" THEN settled ELSE race

\* body of the async map callback after the await: try (lines 40-46) / catch (48-55)
CatchDropsError(url, race, elapsed) ==
    IF race.state = "fulfilled"
    THEN [ state |-> "fulfilled",
           value |-> Some([ url |-> url, status |-> race.status, responseTime |-> elapsed,
                            healthy |-> Ok(Val(race.status)), error |-> Null ]) ]
    ELSE [ state |-> "fulfilled",
           value |-> Some([ url |-> url, status |-> Null, responseTime |-> elapsed,
                            healthy |-> FALSE, error |-> Null ]) ]
NoCatch(url, race, elapsed) ==
    IF race.state = "fulfilled"
    THEN [ state |-> "fulfilled",
           value |-> Some([ url |-> url, status |-> race.status, responseTime |-> elapsed,
                            healthy |-> Ok(Val(race.status)), error |-> Null ]) ]
    ELSE [ state |-> "rejected", value |-> Null ]
TryCatch(url, race, elapsed) ==
    IF race.state = "fulfilled"
    THEN [ state |-> "fulfilled",
           value |-> Some([ url |-> url, status |-> race.status, responseTime |-> elapsed,
                            healthy |-> Ok(Val(race.status)), error |-> Null ]) ]
    ELSE [ state |-> "fulfilled",
           value |-> Some([ url |-> url, status |-> Null, responseTime |-> elapsed,
                            healthy |-> FALSE, error |-> race.error ]) ]

ProbePending == [state |-> "pending", value |-> Null]

\* Promise.all keeps each value at the index of its input promise
StoreInCompletionOrder(ps, i, p) ==
    LET free == {j \in 1..Len(ps) : ps[j].state = "pending"}
        j == CHOOSE x \in free : \A y \in free : x <= y
    IN [ps EXCEPT ![j] = p]
StoreAt(ps, i, p) == [ps EXCEPT ![i] = p]

\* Promise.all: fulfilled once every input is fulfilled, rejected once one is rejected
AnyFulfilled(ps) == ps = <<>> \/ \E i \in 1..Len(ps) : ps[i].state = "fulfilled"
AllFulfilled(ps) == \A i \in 1..Len(ps) : ps[i].state = "fulfilled"
AnyRejected(ps) == \E i \in 1..Len(ps) : ps[i].state = "rejected"
\* the array Promise.all fulfils with: entry i is Some(result of probe i)
Values(ps) == [i \in 1..Len(ps) |-> ps[i].value]

\* the call: urls.map starts every probe (start time, fetch and timer) at once
checkAPIHealth ==
    /\ pc = "idle"
    /\ \E us \in SeqsUpTo(Urls, MaxUrls) :
          /\ urls' = us
          /\ start' = [i \in 1..Len(us) |-> now]
          /\ fetchP' = [i \in 1..Len(us) |-> Pending]
          /\ timerP' = [i \in 1..Len(us) |-> Pending]
          /\ raceP' = [i \in 1..Len(us) |-> Pending]
          /\ first' = [i \in 1..Len(us) |-> "none"]
          /\ probeP' = [i \in 1..Len(us) |-> ProbePending]
    /\ pc' = "running"
    /\ UNCHANGED <<now, logVars, storeVars, returned>>

\* a settlement of fetch i or timer i: the race takes it if it is the first, and
\* then the callback's continuation runs and settles the probe's promise
Settle(i, settled, who) ==
    /\ raceP' = [raceP EXCEPT ![i] = Race(raceP[i], settled)]
    /\ first' = [first EXCEPT ![i] = IF first[i] = "none" THEN who ELSE first[i]]
    /\ probeP' = IF raceP[i].state = "pending" /\ raceP'[i].state /= "pending"
                 THEN StoreAt(probeP, i, TryCatch(urls[i], raceP'[i], now - start[i]))
                 ELSE probeP

FetchFulfil(i) ==
    /\ pc /= "idle"
    /\ fetchP[i].state = "pending"
    /\ \E st \in Statuses :
          /\ fetchP' = [fetchP EXCEPT ![i] = Fulfilled(st)]
          /\ Settle(i, Fulfilled(st), "fetch")
    /\ UNCHANGED <<now, logVars, storeVars, pc, urls, start, timerP, returned>>

FetchReject(i) ==
    /\ pc /= "idle"
    /\ fetchP[i].state = "pending"
    /\ \E msg \in FetchErrors :
          /\ fetchP' = [fetchP EXCEPT ![i] = Rejected(msg)]
          /\ Settle(i, Rejected(msg), "fetch")
    /\ UNCHANGED <<now, logVars, storeVars, pc, urls, start, timerP, returned>>

\* setTimeout(() => reject(new Error('Timeout')), timeout)
TimerFire(i) ==
    /\ pc /= "idle"
    /\ timerP[i].state = "pending"
    /\ timerP' = [timerP EXCEPT ![i] = TimerSettlement]
    /\ Settle(i, TimerSettlement, "timer")
    /\ UNCHANGED <<now, logVars, storeVars, pc, urls, start, fetchP, returned>>

\* const results = await Promise.all(...); return results;
Return ==
    /\ pc = "running"
    /\ AllFulfilled(probeP) \/ AnyRejected(probeP)
    /\ pc' = IF AnyRejected(probeP) THEN "threw" ELSE "returned"
    /\ returned' = IF AnyRejected(probeP) THEN returned ELSE Some(Values(probeP))
    /\ UNCHANGED <<now, logVars, storeVars, urls, start, fetchP, timerP, raceP, first, probeP>>

(* ---- LogParser ---- *)
\* texts are sequences of one-character strings
T503 == <<"5", "0", "3">>
TSp503Sp == <<" ", "5", "0", "3", " ">>
THit == <<"H", "I", "T">>
TMiss == <<"M", "I", "S", "S">>
TOther == <<"o", "t", "h", "e", "r">>

\* the characters \w matches, among those the inputs are built from
WordChars == {"a", "b", "c", "d", "e", "h", "k", "o", "r", "t", "x", "_", "0", "3", "5",
              "H", "I", "M", "S", "T"}

\* String.prototype.split('\n')
RECURSIVE Split(_)
Split(text) ==
    IF \A p \in 1..Len(text) : text[p] /= "\n" THEN <<text>>
    ELSE LET p == CHOOSE q \in 1..Len(text) :
                     text[q] = "\n" /\ \A r \in 1..(q - 1) : text[r] /= "\n"
         IN <<SubSeq(text, 1, p - 1)>> \o Split(SubSeq(text, p + 1, Len(text)))

\* String.prototype.includes
Includes(line, pat) ==
    \E p \in 1..(Len(line) - Len(pat) + 1) : SubSeq(line, p, p + Len(pat) - 1) = pat

\* \b at the gap before position p: exactly one neighbour is a word character
IsWordAt(line, p) == p \in 1..Len(line) /\ line[p] \in WordChars
WordBoundary(line, p) == IsWordAt(line, p - 1) /= IsWordAt(line, p)

\* line.match(/\b503\b/)
Match503Anywhere(line) == Includes(line, T503)
MatchWord503(line) ==
    \E p \in 1..(Len(line) - 2) :
        /\ SubSeq(line, p, p + 2) = T503
        /\ WordBoundary(line, p)
        /\ WordBoundary(line, p + 3)

\* line => line.includes(' 503 ') || line.match(/\b503\b/)
IsOriginError(line) == Includes(line, TSp503Sp) \/ MatchWord503(line)

ParseOriginErrors(logContent) == SelectSeq(Split(logContent), IsOriginError)

\* if (line.includes('HIT')) hitCount++; else if (line.includes('MISS')) missCount++;
ClassifyMissFirst(line) ==
    IF Includes(line, TMiss) THEN "miss"
    ELSE IF Includes(line, THit) THEN "hit" ELSE "none"
Classify(line) ==
    IF Includes(line, THit) THEN "hit"
    ELSE IF Includes(line, TMiss) THEN "miss" ELSE "none"

RECURSIVE CountClass(_, _)
CountClass(logs, c) ==
    IF logs = <<>> THEN 0
    ELSE (IF Classify(Head(logs)) = c THEN 1 ELSE 0) + CountClass(Tail(logs), c)

AnalyzeCachePerformance(logs) ==
    LET hitCount == CountClass(logs, "hit")
        missCount == CountClass(logs, "miss")
        total == hitCount + missCount
    IN [ hitRate |-> IF total > 0 THEN <<hitCount, total>> ELSE <<0, 1>>,
         hitCount |-> hitCount,
         missCount |-> missCount ]

NoLogOut == [op |-> "none", lines |-> <<>>, stats |-> <<>>]

parseOriginErrors ==
    /\ logInput.kind = "content"
    /\ logOut.op = "none"
    /\ logOut' = [op |-> "parseOriginErrors", lines |-> ParseOriginErrors(logInput.v),
                  stats |-> <<>>]
    /\ UNCHANGED <<logInput, now, storeVars, healthVars>>

analyzeCachePerformance ==
    /\ logInput.kind = "lines"
    /\ logOut.op = "none"
    /\ logOut' = [op |-> "analyzeCachePerformance", lines |-> <<>>,
                  stats |-> <<AnalyzeCachePerformance(logInput.v)>>]
    /\ UNCHANGED <<logInput, now, storeVars, healthVars>>

\* log texts: up to MaxPieces pieces glued together, and the text
\* "a 503 b\nok\nc503d\n"
Pieces == {T503, <<" ">>, <<"c">>, <<"\n">>, <<"-">>, <<"_">>}
RECURSIVE Concat(_)
Concat(ps) == IF ps = <<>> THEN <<>> ELSE Head(ps) \o Concat(Tail(ps))
ExampleContent ==
    <<"a", " ", "5", "0", "3", " ", "b", "\n", "o", "k", "\n",
      "c", "5", "0", "3", "d", "\n">>
LogContents == {Concat(ps) : ps \in SeqsUpTo(Pieces, MaxPieces)} \cup {ExampleContent}

\* log line arrays: up to MaxLogs lines, and ["HIT", "MISS", "HIT", "other"]
CacheLines == {THit, TMiss, TOther, TMiss \o <<" ">> \o THit, <<"H", "I">>}
ExampleLogs == <<THit, TMiss, THit, TOther>>
LogLineArrays == SeqsUpTo(CacheLines, MaxLogs) \cup {ExampleLogs}

LogInputs == [kind : {"content"}, v : LogContents] \cup [kind : {"lines"}, v : LogLineArrays]

Init ==
    /\ incidents = <<>>
    /\ now = 0
    /\ calls = 0
    /\ ret = [op |-> "none", ref |-> 0, val |-> <<>>, arg |-> <<>>]
    /\ pc = "idle"
    /\ urls = <<>>
    /\ start = <<>>
    /\ fetchP = <<>>
    /\ timerP = <<>>
    /\ raceP = <<>>
    /\ first = <<>>
    /\ probeP = <<>>
    /\ returned = Null
    /\ logInput = [kind |-> "none", v |-> <<>>]
    /\ logOut = NoLogOut

\* one IncidentTracker instance used by a single caller
Next ==
    \/ Tick
    \/ createIncident
    \/ resolveIncident
    \/ calculateMTTR
    \/ generateMarkdownReport

Spec == Init /\ [][Next]_vars

\* time passing while the call is in flight; only now - start is ever read
Elapse == pc = "running" /\ now < MaxElapsed * MsPerHour /\ Tick

\* one checkAPIHealth call and the events of its probes
HealthNext ==
    \/ Elapse
    \/ checkAPIHealth
    \/ \E i \in 1..Len(urls) : FetchFulfil(i) \/ FetchReject(i) \/ TimerFire(i)
    \/ Return

HealthSpec == Init /\ [][HealthNext]_vars

\* every timer that was set eventually fires, and a continuation that is ready
\* eventually runs; a GET may stay pending for ever
TimerFireAt(i) == i \in 1..Len(urls) /\ TimerFire(i)
HealthFairness ==
    /\ \A i \in 1..MaxUrls : WF_vars(TimerFireAt(i))
    /\ WF_vars(Return)

HealthFairSpec == HealthSpec /\ HealthFairness

\* one LogParser call on an input drawn from LogInputs
LogInit ==
    /\ incidents = <<>>
    /\ now = 0
    /\ calls = 0
    /\ ret = [op |-> "none", ref |-> 0, val |-> <<>>, arg |-> <<>>]
    /\ pc = "idle"
    /\ urls = <<>>
    /\ start = <<>>
    /\ fetchP = <<>>
    /\ timerP = <<>>
    /\ raceP = <<>>
    /\ first = <<>>
    /\ probeP = <<>>
    /\ returned = Null
    /\ logInput \in LogInputs
    /\ logOut = NoLogOut

LogNext == parseOriginErrors \/ analyzeCachePerformance

LogSpec == LogInit /\ [][LogNext]_vars
(***************************************************************************)
(* Incident store properties                                               *)
(***************************************************************************)

\* C1: the n-th createIncident call returns identifier n, so the incident at
\* position k of the store has id k and no two incidents share an id.
C1_SequentialIds ==
    /\ \A k \in 1..Len(incidents) : incidents[k].id = k
    /\ \A j, k \in 1..Len(incidents) : incidents[j].id = incidents[k].id => j = k
    /\ ret.op = "createIncident" => incidents[ret.ref].id = calls

C1_Witness ==
    /\ ret.op = "createIncident"
    /\ calls >= 2
    /\ Truthy(incidents[1].resolutionTime)

NoMatch(incs, id) == \A k \in 1..Len(incs) : ~(id.t = "number" /\ id.v = incs[k].id)

C3_NotFound ==
    [][(ret'.op = "resolveIncident" /\ NoMatch(incidents, ret'.arg[1])) =>
          (ret'.ref = 0 /\ incidents' = incidents)]_vars

C3_Witness ==
    /\ ret.op = "resolveIncident"
    /\ ret.ref = 0
    /\ Len(incidents) >= 1
    /\ ret.arg[1] = Str(1)
    /\ ~Truthy(incidents[1].resolutionTime)

ResolvedIdx == {k \in 1..Len(incidents) : incidents[k].resolutionTime /= Null}
Delta(k) == Val(incidents[k].resolutionTime) - Val(incidents[k].detectionTime)
RECURSIVE SumDelta(_)
SumDelta(S) == IF S = {} THEN 0
               ELSE LET k == CHOOSE x \in S : TRUE IN Delta(k) + SumDelta(S \ {k})

C10_MTTR ==
    ret.op = "calculateMTTR" =>
        /\ ret.val[2] /= 0
        /\ IF ResolvedIdx = {}
           THEN Norm(ret.val) = <<0, 1>>
           ELSE Norm(ret.val) =
                Norm(<<SumDelta(ResolvedIdx), Cardinality(ResolvedIdx) * MsPerHour>>)

\* two incidents with deltas of 1 hour and 3 hours: MTTR = 2
C10_Witness ==
    /\ ret.op = "calculateMTTR"
    /\ Len(incidents) = 2
    /\ ResolvedIdx = {1, 2}
    /\ {Delta(1), Delta(2)} = {MsPerHour, 3 * MsPerHour}
    /\ Norm(ret.val) = <<2, 1>>
(***************************************************************************)
(* Health checker properties                                               *)
(***************************************************************************)
Results == Val(returned)
HasResults == pc = "returned" /\ returned /= Null

\* C4: checkAPIHealth returns exactly one result per input URL and the i-th
\* result carries the i-th input URL, whatever order the probes settle in; an
\* empty URL list gives the empty sequence.
C4_OneResultPerUrlInOrder ==
    pc = "returned" =>
        /\ returned /= Null
        /\ Len(Results) = Len(urls)
        /\ \A i \in 1..Len(urls) : Results[i] /= Null /\ Val(Results[i]).url = urls[i]
        /\ urls = <<>> => Results = <<>>

\* the second probe settled strictly before the first one
C4_Witness ==
    /\ HasResults
    /\ Len(urls) = 2
    /\ urls[1] /= urls[2]
    /\ Val(Results[1]).responseTime > Val(Results[2]).responseTime

\* C5: if the timer of a probe fires before its GET settles, the probe's result
\* has status absent, healthy = false and error "Timeout", and a later
\* settlement of the abandoned GET does not change it.
IsTimeoutResult(r) ==
    /\ r /= Null
    /\ Val(r).status = Null
    /\ Val(r).healthy = FALSE
    /\ Val(r).error = Some("Timeout")

C5_TimerFirstIsTimeout ==
    \A i \in 1..Len(urls) :
        first[i] = "timer" =>
            /\ IsTimeoutResult(probeP[i].value)
            /\ pc = "returned" => IsTimeoutResult(Results[i])

\* urls [fast, slow]: fast answered 200 in time, slow timed out and its GET
\* settled only after the call had returned
C5_Witness ==
    /\ HasResults
    /\ urls = <<"http://fast", "http://slow">>
    /\ first = <<"fetch", "timer">>
    /\ Val(Results[1]).healthy /\ Val(Results[1]).status = Some(200)
    /\ fetchP[2].state = "fulfilled"
    /\ IsTimeoutResult(Results[2])

\* C6: the call has returned only if every one of its probes has an outcome.
C6_NoEarlyReturn ==
    pc = "returned" =>
        \A i \in 1..Len(urls) :
            /\ first[i] /= "none"
            /\ probeP[i].state /= "pending"
            /\ Results[i] /= Null

C6_Witness ==
    /\ HasResults
    /\ Len(urls) = 2
    /\ first[1] /= first[2]

\* C7: a probe that fails or times out is recorded only in its own result, as
\* healthy = false, status absent and the error's message; the call as a whole
\* never throws, and an event of one probe never changes another probe's result.
IsFailureResult(r, err) ==
    /\ r /= Null
    /\ Val(r).status = Null
    /\ Val(r).healthy = FALSE
    /\ Val(r).error = err

C7_FailureIsolation ==
    [][/\ pc' /= "threw"
       /\ \A i \in 1..Len(probeP) :
            /\ probeP[i].state /= "pending" => probeP'[i] = probeP[i]
            /\ (probeP[i].state = "pending" /\ raceP'[i].state = "rejected") =>
                  /\ probeP'[i].state = "fulfilled"
                  /\ IsFailureResult(probeP'[i].value, raceP'[i].error)
            /\ \A j \in 1..Len(probeP) :
                  (j /= i /\ probeP'[i] /= probeP[i]) => probeP'[j] = probeP[j]
       /\ (pc = "running" /\ pc' = "returned") =>
             /\ returned' /= Null
             /\ \A i \in 1..Len(probeP) : Val(returned')[i] = probeP[i].value]_vars

\* one probe failed with a network error, the other is healthy, the call returned
C7_Witness ==
    /\ HasResults
    /\ Len(urls) = 2
    /\ IsFailureResult(Results[1], Some("fetch failed"))
    /\ Val(Results[2]).healthy

\* C8: if the GET of a probe fulfils before its timer fires, the result carries
\* the response's status, healthy = true exactly when the status is in 200..299,
\* and no error; the timer firing afterwards does not change it.
IsResponseResult(r, st) ==
    /\ r /= Null
    /\ Val(r).status = Some(st)
    /\ Val(r).healthy = (st \in 200..299)
    /\ Val(r).error = Null

C8_FetchFirstIsResponse ==
    \A i \in 1..Len(urls) :
        (first[i] = "fetch" /\ fetchP[i].state = "fulfilled") =>
            /\ IsResponseResult(probeP[i].value, Val(fetchP[i].status))
            /\ pc = "returned" => IsResponseResult(Results[i], Val(fetchP[i].status))

\* a 404 answered in time, with the timer firing afterwards
C8_Witness ==
    /\ HasResults
    /\ Len(urls) >= 1
    /\ first[1] = "fetch"
    /\ fetchP[1] = Fulfilled(404)
    /\ timerP[1].state = "rejected"
    /\ ~Val(Results[1]).healthy
(***************************************************************************)
(* Incident store properties, continued                                    *)
(***************************************************************************)

\* C11: resolveIncident returns the incident object only if the incident is
\* found and was unresolved at the time of the call; if the id is not found or
\* the incident is already resolved it returns undefined.
C11_ReturnsOnlyIfUnresolved ==
    [][resolveIncident =>
          (ret'.ref /= 0 =>
              /\ ret'.ref \in 1..Len(incidents)
              /\ ~Truthy(incidents[ret'.ref].resolutionTime))]_vars

\* C16: incidents are never deleted and change only through their own resolve:
\* the store never shrinks, id, title, severity, affected-services and
\* detection-time stay as created, and resolveIncident(id, rca) changes no
\* incident other than the one with that id.
C16_Frame ==
    [][/\ Len(incidents') >= Len(incidents)
       /\ \A k \in 1..Len(incidents) :
            /\ incidents'[k].id = incidents[k].id
            /\ incidents'[k].title = incidents[k].title
            /\ incidents'[k].severity = incidents[k].severity
            /\ incidents'[k].affectedServices = incidents[k].affectedServices
            /\ incidents'[k].detectionTime = incidents[k].detectionTime
            /\ incidents'[k] /= incidents[k] =>
                  /\ resolveIncident
                  /\ ret'.arg[1] = Num(incidents[k].id)
                  /\ ~Truthy(incidents[k].resolutionTime)]_vars

\* the second of two incidents has been resolved, the first is as created
C16_Witness ==
    /\ Len(incidents) = 2
    /\ ret.op = "resolveIncident"
    /\ ret.arg[1] = Num(2)
    /\ Truthy(incidents[2].resolutionTime)
    /\ incidents[2].rca = Some(ret.arg[2])
    /\ incidents[1].resolutionTime = Null
    /\ incidents[1].title /= incidents[2].title

\* C17: rca is set together with resolution-time: a new incident has both
\* absent, the resolving call stamps resolution-time and stores its rca
\* argument in the same step, so an unresolved incident has rca absent and a
\* resolved incident holds the rca of the call that resolved it.
C17_RcaWithResolution ==
    [][/\ \A k \in 1..Len(incidents') :
            incidents'[k].resolutionTime = Null => incidents'[k].rca = Null
       /\ \A k \in (Len(incidents) + 1)..Len(incidents') :
            incidents'[k].resolutionTime = Null /\ incidents'[k].rca = Null
       /\ \A k \in 1..Len(incidents) :
            /\ (incidents[k].resolutionTime = Null /\ incidents'[k].resolutionTime /= Null) =>
                  /\ resolveIncident
                  /\ incidents'[k].resolutionTime = Some(now)
                  /\ incidents'[k].rca = Some(ret'.arg[2])
            /\ incidents[k].rca /= Null => incidents'[k].rca = incidents[k].rca]_vars

\* an incident resolved with the empty rca text next to an unresolved one
C17_Witness ==
    /\ Len(incidents) = 2
    /\ ret.op = "resolveIncident"
    /\ ret.ref = 1
    /\ incidents[1].rca = Some("")
    /\ Val(incidents[1].resolutionTime) > Val(incidents[1].detectionTime)
    /\ incidents[2].rca = Null
\* C15: generateMarkdownReport renders exactly one section per incident, in
\* store order; the resolution-time field is the literal "Unresolved" exactly
\* when the incident has no resolution-time, the RCA field is the literal
\* "Pending" exactly when the incident has no rca text; the store is unchanged.
NoRcaText(inc) == inc.rca = Null \/ inc.rca = Some("")

C15_Report ==
    [][(ret'.op = "generateMarkdownReport" /\ ret' /= ret) =>
          /\ incidents' = incidents
          /\ Len(ret'.val.sections) = Len(incidents)
          /\ \A k \in 1..Len(incidents) :
               LET sec == ret'.val.sections[k] IN
               /\ sec[1] = "## Incident #" \o ToString(k) \o ": " \o incidents[k].title
               /\ sec[5] = "- **Resolution Time:** Unresolved"
                     <=> incidents[k].resolutionTime = Null
               /\ sec[6] = "- **RCA:** Pending" <=> NoRcaText(incidents[k])]_vars

\* a report over a resolved incident with an rca text, then an unresolved one
C15_Witness ==
    /\ ret.op = "generateMarkdownReport"
    /\ Len(incidents) = 2
    /\ incidents[1].rca = Some("bad deploy")
    /\ incidents[2].resolutionTime = Null
    /\ ret.val.sections[1][5] = "- **Resolution Time:** 1970-01-01T02:00:00.000Z"
    /\ ret.val.sections[1][6] = "- **RCA:** bad deploy"
    /\ ret.val.sections[2][5] = "- **Resolution Time:** Unresolved"
    /\ ret.val.mttr = "**MTTR:** 2.00 hours"
(***************************************************************************)
(* Health checker properties, continued                                    *)
(***************************************************************************)

\* C18: every checkAPIHealth call eventually completes, even if some or all
\* GETs never settle: given that each timer eventually fires, every probe
\* eventually has an outcome and the call eventually returns its results.
C18_CallCompletes ==
    (pc = "running") ~>
        (/\ pc = "returned"
         /\ returned /= Null
         /\ \A i \in 1..Len(urls) : probeP[i].state = "fulfilled")

\* the call has returned although no GET has settled
C18_Witness ==
    /\ HasResults
    /\ Len(urls) = 2
    /\ \A i \in 1..Len(urls) : fetchP[i].state = "pending" /\ IsTimeoutResult(Results[i])

\* C19: in every result returned by checkAPIHealth the error field is present
\* exactly when status is absent, and healthy = true implies that status is
\* present and error is absent.
C19_ResultShape ==
    pc = "returned" =>
        \A i \in 1..Len(Results) :
            /\ Results[i] /= Null
            /\ Val(Results[i]).error /= Null <=> Val(Results[i]).status = Null
            /\ Val(Results[i]).healthy =>
                  (Val(Results[i]).status /= Null /\ Val(Results[i]).error = Null)

\* a network error next to a non-ok response: healthy = false with a status, no error
C19_Witness ==
    /\ HasResults
    /\ Len(urls) = 2
    /\ Val(Results[1]).error = Some("fetch failed")
    /\ Val(Results[2]).status = Some(404)
    /\ ~Val(Results[2]).healthy
    /\ Val(Results[2]).error = Null
(***************************************************************************)
(* Log scanner properties                                                  *)
(***************************************************************************)
LineA503B == <<"a", " ", "5", "0", "3", " ", "b">>
LineOk == <<"o", "k">>
LineC503D == <<"c", "5", "0", "3", "d">>
InSeq(x, xs) == \E k \in 1..Len(xs) : xs[k] = x
ParsedExample == logOut.op = "parseOriginErrors" /\ logInput.v = ExampleContent

\* C12 as stated: parseOriginErrors on "a 503 b\nok\nc503d\n" returns both the
\* line "a 503 b" and the line "c503d" and excludes the line "ok".
C12_ExampleBothLines ==
    ParsedExample =>
        /\ InSeq(LineA503B, logOut.lines)
        /\ InSeq(LineC503D, logOut.lines)
        /\ ~InSeq(LineOk, logOut.lines)

\* C12 as amended: parseOriginErrors on "a 503 b\nok\nc503d\n" returns exactly
\* the line "a 503 b"; it excludes "ok" and also "c503d", where 503 sits
\* inside a word and has no word boundary on either side.
C12_ExampleOnlyBoundedLine ==
    ParsedExample => logOut.lines = <<LineA503B>>

C12_Witness == ParsedExample /\ Len(logOut.lines) = 1

\* C13: parseOriginErrors returns exactly the lines (split on newline) that
\* contain " 503 " or contain 503 as a standalone token bounded by word
\* boundaries, each such line once, in original line order; empty input yields
\* the empty sequence.
\* the lines of a text: the stretches between consecutive newlines
Cuts(text) == {0, Len(text) + 1} \cup {p \in 1..Len(text) : text[p] = "\n"}
NthCut(text, n) == CHOOSE c \in Cuts(text) : Cardinality({d \in Cuts(text) : d < c}) = n
LineNo(text, n) == SubSeq(text, NthCut(text, n - 1) + 1, NthCut(text, n) - 1)
NumLines(text) == Cardinality(Cuts(text)) - 1
\* 503 with no word character directly before or after it
Standalone503(line) ==
    \E p \in 1..Len(line) :
        /\ p + 2 <= Len(line)
        /\ line[p] = "5" /\ line[p + 1] = "0" /\ line[p + 2] = "3"
        /\ (p = 1 \/ line[p - 1] \notin WordChars)
        /\ (p + 2 = Len(line) \/ line[p + 3] \notin WordChars)
Wanted(text) == {n \in 1..NumLines(text) : Standalone503(LineNo(text, n))}

C13_ExactlyMatchingLinesInOrder ==
    logOut.op = "parseOriginErrors" =>
        LET text == logInput.v
            out == logOut.lines
        IN /\ Len(out) = Cardinality(Wanted(text))
           /\ \A k \in 1..Len(out) :
                \E n \in Wanted(text) :
                    /\ Cardinality({m \in Wanted(text) : m < n}) = k - 1
                    /\ out[k] = LineNo(text, n)
           /\ text = <<>> => out = <<>>

\* "503\n-503": two different matching lines, returned in line order
C13_Witness ==
    /\ logOut.op = "parseOriginErrors"
    /\ logInput.v = <<"5", "0", "3", "\n", "-", "5", "0", "3">>
    /\ logOut.lines = << <<"5", "0", "3">>, <<"-", "5", "0", "3">> >>

\* C14: analyzeCachePerformance returns hitCount = number of lines containing
\* "HIT" (also those that contain "MISS" too), missCount = number of lines
\* containing "MISS" but not "HIT", and hitRate = hitCount / (hitCount +
\* missCount), 0 when both counts are zero.
HasText(line, word) ==
    \E p \in 1..Len(line) :
        /\ p + Len(word) - 1 <= Len(line)
        /\ \A q \in 1..Len(word) : line[p + q - 1] = word[q]
HitLines(logs) == {k \in 1..Len(logs) : HasText(logs[k], THit)}
MissLines(logs) == {k \in 1..Len(logs) : HasText(logs[k], TMiss) /\ ~HasText(logs[k], THit)}

C14_CacheCounts ==
    logOut.op = "analyzeCachePerformance" =>
        LET st == logOut.stats[1]
            h == Cardinality(HitLines(logInput.v))
            m == Cardinality(MissLines(logInput.v))
        IN /\ st.hitCount = h
           /\ st.missCount = m
           /\ st.hitRate[2] /= 0
           /\ IF h + m = 0 THEN st.hitRate[1] = 0
              ELSE st.hitRate[1] * (h + m) = h * st.hitRate[2]

\* ["HIT", "MISS", "HIT", "other"]: hitCount 2, missCount 1, hitRate 2/3
C14_Witness ==
    /\ logOut.op = "analyzeCachePerformance"
    /\ logInput.v = ExampleLogs
    /\ logOut.stats[1].hitCount = 2
    /\ logOut.stats[1].missCount = 1
    /\ Norm(logOut.stats[1].hitRate) = <<2, 3>>
====
